---- MODULE Spec2Model ----
(***************************************************************************)
(* A model of appconf: Bind descriptors, the AppConfig resolution engine,  *)
(* the argparse provider and the OmegaConf backing store.                  *)
(*                                                                         *)
(* Python values are tagged records.  A dotted key "a.b" is kept as the    *)
(* sequence of its segments <<"a", "b">> (what key.split('.') yields).     *)
(***************************************************************************)
EXTENDS Integers, Sequences, FiniteSets, TLC

(***************************************************************************)
(* Bounds of the model.                                                    *)
(***************************************************************************)
\* Longest Python list a read may build (an APPEND read extends a list).
MaxLen == 6
\* Number of state-changing calls (bound writes, sets, saves, assignments).
MaxOps == 2

(***************************************************************************)
(* Python values.                                                          *)
(***************************************************************************)
None == [t |-> "none"]
PyInt(i) == [t |-> "int", i |-> i]
\* a plain Python list
List(s) == [t |-> "list", l |-> s]
\* omegaconf.ListConfig: what the store holds and returns for a list node
ListConfig(s) == [t |-> "listcfg", l |-> s]
\* omegaconf.DictConfig
DictConfig(f) == [t |-> "dict", d |-> f]
EmptyMap == [k \in {} |-> None]

\* providers/base.py: class DefaultedValue
DefaultedValue(v) == [t |-> "dv", value |-> v]

\* isinstance(v, DefaultedValue)
IsDefaultedValue(v) == v.t = "dv"
\* isinstance(v, list)
IsList(v) == v.t = "list"
\* isinstance(v, (list, ListConfig))
IsListOrListConfig(v) == v.t \in {"list", "listcfg"}

\* Python truthiness, as used by `a or b`
Truthy(v) ==
    CASE v.t = "none" -> FALSE
      [] v.t = "int" -> v.i # 0
      [] v.t \in {"list", "listcfg"} -> Len(v.l) > 0
      [] v.t = "dict" -> DOMAIN v.d # {}
      [] OTHER -> TRUE
PyOr(a, b) == IF Truthy(a) THEN a ELSE b

\* dict.get(key) with the default None
DictGet(f, k) == IF k \in DOMAIN f THEN f[k] ELSE None
Put(f, k, v) == [x \in (DOMAIN f) \cup {k} |-> IF x = k THEN v ELSE f[x]]

(***************************************************************************)
(* The converter of a binding: a caller-supplied function, here one that   *)
(* is not the identity on any scalar (as int is on the string '8080').     *)
(***************************************************************************)
ConvShift == 10
Converter(v) == IF v.t = "int" THEN PyInt(v.i + ConvShift) ELSE v

(***************************************************************************)
(* The backing store: omegaconf/omega_config.py                            *)
(***************************************************************************)
\* The segments int() parses, and their values.
IsIntStr(s) == s \in {"0", "1", "2", "-1"}
ToInt(s) == CASE s = "0" -> 0 [] s = "1" -> 1 [] s = "2" -> 2 [] s = "-1" -> 0 - 1

\* What assigning a Python value into a DictConfig/ListConfig stores.
ToNode(v) == IF v.t = "list" THEN ListConfig(v.l) ELSE v

\* OmegaConf.select(config, key, default=None): None when the path is
\* missing, leaves a list's range or runs through a node that is no container.
RECURSIVE Select(_, _)
Select(node, key) ==
    IF key = <<>> THEN node
    ELSE IF node.t = "dict"
         THEN IF Head(key) \in DOMAIN node.d
              THEN Select(node.d[Head(key)], Tail(key))
              ELSE None
    ELSE IF node.t = "listcfg"
         THEN IF IsIntStr(Head(key)) /\ ToInt(Head(key)) >= 0
                                     /\ ToInt(Head(key)) < Len(node.l)
              THEN Select(node.l[ToInt(Head(key)) + 1], Tail(key))
              ELSE None
    ELSE None

\* OmegaConfig.get
OmegaConfigGet(cfg, key) == Select(cfg, key)

SetOk(node) == [ok |-> TRUE, node |-> node]
\* ValueError raised by set; `at` is the index highlight_key marks.
SetErr(msg, at) == [ok |-> FALSE, msg |-> msg, at |-> at]

\* set whose errors always mark the first segment of the key.
RECURSIVE MutSetFromMarkFirst(_, _, _, _)
MutSetFromMarkFirst(cur, parts, i, value) ==
    LET part == parts[i]
        isLast == (i = Len(parts))
    IN  IF cur.t = "dict"
        THEN IF isLast
             THEN SetOk(DictConfig(Put(cur.d, part, ToNode(value))))
             ELSE LET child == IF part \in DOMAIN cur.d THEN cur.d[part]
                                                         ELSE DictConfig(EmptyMap)
                      r == MutSetFromMarkFirst(child, parts, i + 1, value)
                  IN  IF r.ok THEN SetOk(DictConfig(Put(cur.d, part, r.node))) ELSE r
        ELSE IF cur.t = "listcfg"
        THEN IF ~IsIntStr(part)
             THEN SetErr("Invalid list index", 0)
             ELSE LET index == ToInt(part) IN
                  IF index < 0 \/ index >= Len(cur.l)
                  THEN SetErr("Invalid list index", 0)
                  ELSE IF isLast
                       THEN SetOk(ListConfig([cur.l EXCEPT ![index + 1] = ToNode(value)]))
                       ELSE LET r == MutSetFromMarkFirst(cur.l[index + 1], parts, i + 1, value)
                            IN  IF r.ok
                                THEN SetOk(ListConfig([cur.l EXCEPT ![index + 1] = r.node]))
                                ELSE r
        ELSE SetErr("Config must be a DictConfig or ListConfig", 0)

\* OmegaConfig.set from segment i (1-based) of key_parts on: the loop over
\* key_parts[:-1] and the assignment at the last part.  Yields the changed
\* node, or the error raised (nothing is changed then).
RECURSIVE SetFrom(_, _, _, _)
SetFrom(cur, parts, i, value) ==
    LET part == parts[i]
        isLast == (i = Len(parts))
    IN  IF cur.t = "dict"
        THEN IF isLast
             THEN SetOk(DictConfig(Put(cur.d, part, ToNode(value))))
             ELSE LET child == IF part \in DOMAIN cur.d THEN cur.d[part]
                                                         ELSE DictConfig(EmptyMap)
                      r == SetFrom(child, parts, i + 1, value)
                  IN  IF r.ok THEN SetOk(DictConfig(Put(cur.d, part, r.node))) ELSE r
        ELSE IF cur.t = "listcfg"
        THEN IF ~IsIntStr(part)
             THEN SetErr("Invalid list index", i - 1)
             ELSE LET index == ToInt(part) IN
                  IF index < 0 \/ index >= Len(cur.l)
                  \* the "out of bounds" ValueError is raised inside the try
                  \* and replaced by the except clause's error
                  THEN SetErr("Invalid list index", i - 1)
                  ELSE IF isLast
                       THEN SetOk(ListConfig([cur.l EXCEPT ![index + 1] = ToNode(value)]))
                       ELSE LET r == SetFrom(cur.l[index + 1], parts, i + 1, value)
                            IN  IF r.ok
                                THEN SetOk(ListConfig([cur.l EXCEPT ![index + 1] = r.node]))
                                ELSE r
        ELSE SetErr("Config must be a DictConfig or ListConfig", i - 1)

\* set that assigns the last segment at the top of the document.
MutOmegaConfigSetFlat(cfg, key, value) == SetFrom(cfg, <<key[Len(key)]>>, 1, value)

OmegaConfigSet(cfg, key, value) == SetFrom(cfg, key, 1, value)

(***************************************************************************)
(* Files and the loader: omegaconf/loader.py, omegaconf/errors.py          *)
(*                                                                         *)
(* A file holds a YAML document: mappings, sequences, ints, nulls and      *)
(* strings of the form "${a.b}".  OmegaConf.load turns it into a config    *)
(* tree, in which such a string is an interpolation node; OmegaConf.save   *)
(* writes a tree back, interpolations as the strings they came from.       *)
(***************************************************************************)
YMap(m) == [y |-> "map", m |-> m]
YSeq(q) == [y |-> "seq", q |-> q]
YInt(i) == [y |-> "int", i |-> i]
YNull == [y |-> "null"]
\* the string "${key}"
YRef(key) == [y |-> "ref", key |-> key]

\* an interpolation node of a config tree
Interp(key) == [t |-> "interp", key |-> key]

\* OmegaConf.load: the config tree of a YAML document
RECURSIVE YamlLoad(_)
YamlLoad(y) ==
    CASE y.y = "map" -> DictConfig([k \in DOMAIN y.m |-> YamlLoad(y.m[k])])
      [] y.y = "seq" -> ListConfig([j \in 1..Len(y.q) |-> YamlLoad(y.q[j])])
      [] y.y = "int" -> PyInt(y.i)
      [] y.y = "ref" -> Interp(y.key)
      [] OTHER -> None

\* OmegaConf.save: the YAML document of a config tree
RECURSIVE YamlDump(_)
YamlDump(node) ==
    CASE node.t = "dict" -> YMap([k \in DOMAIN node.d |-> YamlDump(node.d[k])])
      [] node.t \in {"listcfg", "list"} ->
            YSeq([j \in 1..Len(node.l) |-> YamlDump(node.l[j])])
      [] node.t = "int" -> YInt(node.i)
      [] node.t = "interp" -> YRef(node.key)
      [] OTHER -> YNull

\* OmegaConf.merge(a, b): mappings are merged key by key, anything else of b
\* replaces what a holds.
RECURSIVE Merge(_, _)
Merge(a, b) ==
    IF a.t = "dict" /\ b.t = "dict"
    THEN DictConfig([k \in (DOMAIN a.d) \cup (DOMAIN b.d) |->
                        IF k \in DOMAIN a.d /\ k \in DOMAIN b.d
                        THEN Merge(a.d[k], b.d[k])
                        ELSE IF k \in DOMAIN b.d THEN b.d[k] ELSE a.d[k]])
    ELSE b

\* The path `key` exists in the tree (its value may be None).
RECURSIVE Has(_, _)
Has(node, key) ==
    IF key = <<>> THEN TRUE
    ELSE IF node.t = "dict"
         THEN Head(key) \in DOMAIN node.d /\ Has(node.d[Head(key)], Tail(key))
    ELSE IF node.t = "listcfg"
         THEN /\ IsIntStr(Head(key)) /\ ToInt(Head(key)) >= 0
              /\ ToInt(Head(key)) < Len(node.l)
              /\ Has(node.l[ToInt(Head(key)) + 1], Tail(key))
    ELSE FALSE

\* The keys the interpolations of a tree refer to.
RECURSIVE InterpKeys(_)
InterpKeys(node) ==
    CASE node.t = "dict" -> UNION {InterpKeys(node.d[k]) : k \in DOMAIN node.d}
      [] node.t = "listcfg" -> UNION {InterpKeys(node.l[j]) : j \in 1..Len(node.l)}
      [] node.t = "interp" -> {node.key}
      [] OTHER -> {}

\* The interpolation keys OmegaConf.resolve does not find.
Unresolved(root) == {k \in InterpKeys(root) : ~Has(root, k)}

\* OmegaConf.resolve(config) when every key is found: each interpolation is
\* replaced by the value it refers to.
RECURSIVE Resolve(_, _)
Resolve(root, node) ==
    CASE node.t = "dict" -> DictConfig([k \in DOMAIN node.d |-> Resolve(root, node.d[k])])
      [] node.t = "listcfg" ->
            ListConfig([j \in 1..Len(node.l) |-> Resolve(root, node.l[j])])
      [] node.t = "interp" -> Resolve(root, Select(root, node.key))
      [] OTHER -> node

\* config_file.with_name(config_file.stem + "_private.yaml")
PrivateFile(path) ==
    IF path = "config.yaml" THEN "config_private.yaml" ELSE "output_private.yaml"

\* key.startswith("private.")
IsPrivateKey(key) == Len(key) >= 2 /\ key[1] = "private"

\* _load_raw that wraps every unresolved key into a PrivateConfigError.
MutLoadErrorWrapAll(key, privateExists) ==
    [exc |-> "PrivateConfigError", key |-> key,
     msg |-> IF privateExists THEN "is missing key" ELSE "was not found"]

\* What _load_raw raises for the interpolation key OmegaConf.resolve did not
\* find: PrivateConfigError (errors.py) for a key under private., with the
\* verb its message uses, else the InterpolationKeyError as it came.
LoadError(key, privateExists) ==
    IF IsPrivateKey(key)
    THEN [exc |-> "PrivateConfigError", key |-> key,
          msg |-> IF privateExists THEN "is missing key" ELSE "was not found"]
    ELSE [exc |-> "InterpolationKeyError", key |-> key, msg |-> "not found"]

\* del config["private"]
StripPrivate(node) ==
    IF node.t = "dict" /\ "private" \in DOMAIN node.d
    THEN DictConfig([k \in (DOMAIN node.d) \ {"private"} |-> node.d[k]])
    ELSE node

\* The tree _load_raw resolves: the config file, merged with the companion
\* private file when that exists.
LoadMerged(fs, path) ==
    IF PrivateFile(path) \in DOMAIN fs
    THEN Merge(YamlLoad(fs[path]), YamlLoad(fs[PrivateFile(path)]))
    ELSE YamlLoad(fs[path])

\* OmegaConfigLoader._load_raw on the files fs: the tree, or the errors it
\* can raise (OmegaConf.resolve stops at the first interpolation it cannot
\* resolve, which depends on the order of the document's keys; a document
\* here stands for every order of its keys).
OmegaConfigLoaderLoadRaw(fs, path) ==
    LET private_file == PrivateFile(path)
        merged == LoadMerged(fs, path)
    IN  IF Unresolved(merged) # {}
        THEN [ok |-> FALSE,
              errors |-> {LoadError(k, private_file \in DOMAIN fs) : k \in Unresolved(merged)}]
        ELSE [ok |-> TRUE, node |-> StripPrivate(Resolve(merged, merged))]

(***************************************************************************)
(* State.                                                                  *)
(***************************************************************************)
VARIABLES
    mro,            \* type(self).__mro__ below AppConfig: a sequence of class
                    \* __dict__s, most derived first (name -> Bind or other)
    providers,      \* AppConfig._providers: the provider kinds, in order
    args,           \* ArgNamespaceProvider._args: the Namespace (attr -> value)
    defaults,       \* ArgNamespaceProvider._defaults
    config,         \* OmegaConfProvider._config._config: the document tree
    bind_defaults,  \* AppConfig._bind_defaults
    inst,           \* the instance __dict__: set-caches and plain attributes
    files,          \* the YAML files on disk: path -> document tree
    last,           \* what the last call did and returned
    nops,           \* state-changing calls made so far
    other           \* a second object of the same type, when there is one:
                    \* its providers, Namespace, store, bind_defaults, __dict__

vars == <<mro, providers, args, defaults, config, bind_defaults, inst, files,
          last, nops, other>>

(***************************************************************************)
(* Bind descriptors: bind.py                                               *)
(***************************************************************************)
\* a str | None field that is None
NoStr == "<None>"

\* Bind.__init__ (cls "Bind") and BindDefault.__init__ (cls "BindDefault")
BindInit(cls, config_path, arg_key, action, converter, default) ==
    [t |-> "Bind", cls |-> cls, config_path |-> config_path, arg_key |-> arg_key,
     property_name |-> NoStr, action |-> action, converter |-> converter,
     default |-> default, cache_attr |-> NoStr]

\* f"_bind_cache_{name}"
CacheAttrName(name) ==
    CASE name = "port" -> "_bind_cache_port"
      [] name = "items" -> "_bind_cache_items"
      [] name = "server_port" -> "_bind_cache_server_port"
      [] OTHER -> "_bind_cache_"

\* Bind.__set_name__
BindSetName(bind, name) ==
    [bind EXCEPT !.property_name = name,
                 !.cache_attr = CacheAttrName(name),
                 !.arg_key = IF bind.arg_key = NoStr THEN name ELSE bind.arg_key]

\* A Bind declared in a class body under `name`.
Declare(name, bind) == BindSetName(bind, name)

IsBind(attr) == attr.t = "Bind"

(***************************************************************************)
(* Providers: providers/argparse.py, providers/omegaconf.py                *)
(***************************************************************************)
ArgsProvider == "ArgNamespaceProvider"
StoreProvider == "OmegaConfProvider"

\* isinstance(provider, BackingStore)
IsBackingStore(p) == p = StoreProvider

\* The argument provider of the config object: its _args and _defaults.
ArgsSelf == [args |-> args, defaults |-> defaults]

\* get that returns the attribute whenever the Namespace has it, None too.
MutArgGetNullAnswers(self, key) ==
    IF key \in DOMAIN self.args THEN self.args[key] ELSE DictGet(self.defaults, key)

\* ArgNamespaceProvider.get(self, key)
ArgNamespaceProviderGetOf(self, key) ==
    IF key \in DOMAIN self.args /\ self.args[key] # None
    THEN self.args[key]
    ELSE DictGet(self.defaults, key)

\* ArgNamespaceProvider.get on the config object's argument provider
ArgNamespaceProviderGet(key) == ArgNamespaceProviderGetOf(ArgsSelf, key)

\* Where the object ArgNamespaceProvider.get returns lives.
ArgValueOwnerOf(self, key) ==
    IF key \in DOMAIN self.args /\ self.args[key] # None THEN "args"
    ELSE IF DictGet(self.defaults, key) # None THEN "defaults"
    ELSE "none"

ArgValueOwner(key) == ArgValueOwnerOf(ArgsSelf, key)

\* ArgNamespaceProvider.bind_key: the binding's arg_key
ArgNamespaceProviderBindKey(bind) == bind.arg_key

\* OmegaConfProvider.bind_key
OmegaConfProviderBindKey(bind) == bind.config_path

\* OmegaConfProvider.get
OmegaConfProviderGet(key) == OmegaConfigGet(config, key)

\* provider.bind_key(bind) is None
BindKeyIsNone(p, bind) ==
    IF p = ArgsProvider THEN ArgNamespaceProviderBindKey(bind) = NoStr
    ELSE FALSE

\* provider.get(provider.bind_key(bind))
ProviderGet(self, p, bind) ==
    IF p = ArgsProvider
    THEN ArgNamespaceProviderGetOf(self, ArgNamespaceProviderBindKey(bind))
    ELSE OmegaConfProviderGet(OmegaConfProviderBindKey(bind))

(***************************************************************************)
(* The resolution engine: app_config.py                                    *)
(***************************************************************************)
\* _convert that hands a list to the converter as one value.
MutConvertWhole(value, bind) ==
    IF bind.converter /\ value # None
    THEN [value |-> Converter(value), calls |-> <<value>>]
    ELSE [value |-> value, calls |-> <<>>]

\* AppConfig._convert: the value returned and the converter's calls (its
\* arguments, in call order).
Convert(value, bind) ==
    IF bind.converter /\ value # None
    THEN IF IsListOrListConfig(value)
         THEN [value |-> List([j \in 1..Len(value.l) |-> Converter(value.l[j])]),
               calls |-> value.l]
         ELSE [value |-> Converter(value), calls |-> <<value>>]
    ELSE [value |-> value, calls |-> <<>>]

\* The start of AppConfig._resolve_bind: result = None, defaulted = None.
\* acc.result and acc.defaulted are the loop's variables; acc.owner says where
\* the object bound to `result` lives and acc.extended whether result.extend
\* or result.append changed it there.
ResolveStart ==
    [result |-> None, defaulted |-> None, owner |-> "none", extended |-> FALSE]

\* The loop body with a later list put in front of the result.
MutResolveStepPrepend(bind, acc, value, owner) ==
    IF IsDefaultedValue(value)
    THEN [acc EXCEPT !.defaulted = PyOr(acc.defaulted, value.value)]
    ELSE IF acc.result = None
    THEN [acc EXCEPT !.result = value, !.owner = owner]
    ELSE IF bind.action = "append" /\ IsList(acc.result)
    THEN IF IsListOrListConfig(value)
         THEN [acc EXCEPT !.result = List(value.l \o acc.result.l), !.extended = TRUE]
         ELSE [acc EXCEPT !.result = List(Append(acc.result.l, value)),
                          !.extended = TRUE]
    ELSE acc

\* The loop body with result.append for every later value, a list included.
MutResolveStepAppendWhole(bind, acc, value, owner) ==
    IF IsDefaultedValue(value)
    THEN [acc EXCEPT !.defaulted = PyOr(acc.defaulted, value.value)]
    ELSE IF acc.result = None
    THEN [acc EXCEPT !.result = value, !.owner = owner]
    ELSE IF bind.action = "append" /\ IsList(acc.result)
    THEN [acc EXCEPT !.result = List(Append(acc.result.l, value)), !.extended = TRUE]
    ELSE acc

\* The loop body with a DefaultedValue unwrapped on the spot and counted as
\* the provider's answer.
MutResolveStepMarkerResolves(bind, acc, value, owner) ==
    LET v == IF IsDefaultedValue(value) THEN value.value ELSE value IN
    IF acc.result = None
    THEN [acc EXCEPT !.result = v, !.owner = owner]
    ELSE IF bind.action = "append" /\ IsList(acc.result)
    THEN IF IsListOrListConfig(v)
         THEN [acc EXCEPT !.result = List(acc.result.l \o v.l), !.extended = TRUE]
         ELSE [acc EXCEPT !.result = List(Append(acc.result.l, v)), !.extended = TRUE]
    ELSE acc

\* The loop body of AppConfig._resolve_bind for a provider's non-None value;
\* owner: where the value object lives.
ResolveStep(bind, acc, value, owner) ==
    IF IsDefaultedValue(value)
    THEN [acc EXCEPT !.defaulted = PyOr(acc.defaulted, value.value)]
    ELSE IF acc.result = None
    THEN [acc EXCEPT !.result = value, !.owner = owner]
    ELSE IF bind.action = "append" /\ IsList(acc.result)
    THEN IF IsListOrListConfig(value)
         THEN [acc EXCEPT !.result = List(acc.result.l \o value.l),
                          !.extended = TRUE]
         ELSE [acc EXCEPT !.result = List(Append(acc.result.l, value)),
                          !.extended = TRUE]
    ELSE acc

\* The loop of AppConfig._resolve_bind over self._providers from index i on;
\* self: the argument provider as the call finds it.
RECURSIVE ResolveLoop(_, _, _, _)
ResolveLoop(self, bind, i, acc) ==
    IF i > Len(providers) THEN acc
    ELSE LET p == providers[i] IN
         IF BindKeyIsNone(p, bind) THEN ResolveLoop(self, bind, i + 1, acc)
         ELSE LET value == ProviderGet(self, p, bind) IN
              IF value = None THEN ResolveLoop(self, bind, i + 1, acc)
              ELSE ResolveLoop(self, bind, i + 1,
                       ResolveStep(bind, acc, value,
                                   IF p = ArgsProvider
                                   THEN ArgValueOwnerOf(self, bind.arg_key)
                                   ELSE "store"))

\* The fallbacks without the Bind default.
MutResolveFallbacksNoDefault(bind, acc) ==
    LET r1 == IF acc.result = None
              THEN DictGet(bind_defaults, bind.property_name)
              ELSE acc.result
    IN  IF r1 = None
        THEN IF acc.defaulted # None THEN acc.defaulted ELSE None
        ELSE r1

\* The fallbacks with the Bind default asked before bind_defaults.
MutResolveFallbacksDefaultFirst(bind, acc) ==
    LET r1 == IF acc.result = None THEN bind.default ELSE acc.result
    IN  IF r1 = None
        THEN IF DictGet(bind_defaults, bind.property_name) # None
             THEN DictGet(bind_defaults, bind.property_name)
             ELSE IF acc.defaulted # None THEN acc.defaulted
             ELSE None
        ELSE r1

\* The fallbacks of AppConfig._resolve_bind after the loop: bind_defaults by
\* property name, the Bind default, the unwrapped DefaultedValue.
ResolveFallbacks(bind, acc) ==
    LET r1 == IF acc.result = None
              THEN IF bind.property_name # NoStr
                   THEN DictGet(bind_defaults, bind.property_name)
                   ELSE None
              ELSE acc.result
    IN  IF r1 = None
        THEN IF bind.default # None THEN bind.default
             ELSE IF acc.defaulted # None THEN acc.defaulted
             ELSE None
        ELSE r1

\* AppConfig._resolve_bind: the value before conversion (raw), the value
\* returned, the converter's calls, and the Namespace and the provider's
\* defaults as the call leaves them.
ResolveBindOf(self, bind) ==
    LET acc == ResolveLoop(self, bind, 1, ResolveStart)
        r2 == ResolveFallbacks(bind, acc)
        c == Convert(r2, bind)
    IN  [raw |-> r2, value |-> c.value, calls |-> c.calls, cached |-> FALSE,
         args |-> IF acc.extended /\ acc.owner = "args"
                  THEN [self.args EXCEPT ![bind.arg_key] = acc.result]
                  ELSE self.args,
         defaults |-> IF acc.extended /\ acc.owner = "defaults"
                      THEN [self.defaults EXCEPT ![bind.arg_key] = acc.result]
                      ELSE self.defaults]

\* self._resolve_bind(bind) on the config object as it is
ResolveBind(bind) == ResolveBindOf(ArgsSelf, bind)

\* Bind.__get__ that asks the sources first and falls back to the set-cache.
MutBindGetSourcesFirst(bind) ==
    IF ResolveBind(bind).raw = None /\ bind.cache_attr # NoStr
                                   /\ bind.cache_attr \in DOMAIN inst
    THEN [raw |-> inst[bind.cache_attr], value |-> inst[bind.cache_attr],
          calls |-> <<>>, cached |-> TRUE, args |-> args, defaults |-> defaults]
    ELSE ResolveBind(bind)

\* Bind.__get__ / BindDefault.__get__ on an instance
BindGet(bind) ==
    IF bind.cache_attr # NoStr /\ bind.cache_attr \in DOMAIN inst
    THEN [raw |-> inst[bind.cache_attr], value |-> inst[bind.cache_attr],
          calls |-> <<>>, cached |-> TRUE, args |-> args, defaults |-> defaults]
    ELSE ResolveBind(bind)

(***************************************************************************)
(* The class of the config object.                                         *)
(***************************************************************************)
\* The walk without the break: the first class whose __dict__ holds `name`
\* as a Bind, a declaration that is no Bind being stepped over.
RECURSIVE MutFindClassNoBreak(_, _)
MutFindClassNoBreak(name, i) ==
    IF i > Len(mro) THEN 0
    ELSE IF name \in DOMAIN mro[i] /\ mro[i][name].t = "Bind" THEN i
    ELSE MutFindClassNoBreak(name, i + 1)

\* The first class of the mro whose __dict__ holds `name` (0: none).
RECURSIVE FindClass(_, _)
FindClass(name, i) ==
    IF i > Len(mro) THEN 0
    ELSE IF name \in DOMAIN mro[i] THEN i
    ELSE FindClass(name, i + 1)

\* `name` resolves to a Bind descriptor of the type
IsBound(name) == FindClass(name, 1) # 0 /\ IsBind(mro[FindClass(name, 1)][name])
BindOf(name) == mro[FindClass(name, 1)][name]
BoundNames == {n \in UNION {DOMAIN mro[i] : i \in 1..Len(mro)} : IsBound(n)}

(***************************************************************************)
(* Calls on the config object.  `last` records the call just made.         *)
(***************************************************************************)
Call(op, name, key, arg) ==
    [op |-> op, name |-> name, key |-> key, arg |-> arg, value |-> None,
     raw |-> None, calls |-> <<>>, cached |-> FALSE, bound |-> FALSE,
     err |-> FALSE, exc |-> NoStr, msg |-> NoStr, at |-> 0 - 1]

\* The length of the list a read returns (0 for any other value).
ListLen(v) == IF IsListOrListConfig(v) THEN Len(v.l) ELSE 0

\* value = instance.<name>, for a name bound to a Bind descriptor
Get(name) ==
    /\ IsBound(name)
    /\ LET r == BindGet(BindOf(name)) IN
        /\ ListLen(r.raw) <= MaxLen
        /\ last' = [Call("get", name, <<>>, None) EXCEPT
                        !.value = r.value, !.raw = r.raw, !.calls = r.calls,
                        !.cached = r.cached, !.bound = TRUE]
        /\ args' = r.args
        /\ defaults' = r.defaults
    /\ UNCHANGED <<mro, providers, config, bind_defaults, inst, files, nops, other>>

\* AppConfig._store: the first provider that is a BackingStore (0: none)
RECURSIVE StoreIndex(_)
StoreIndex(i) ==
    IF i > Len(providers) THEN 0
    ELSE IF IsBackingStore(providers[i]) THEN i
    ELSE StoreIndex(i + 1)

\* OmegaConfProvider.set
OmegaConfProviderSet(key, value) == OmegaConfigSet(config, key, value)

\* AppConfig.set: self._store.set(key, value)
AppConfigSet(key, value) == OmegaConfProviderSet(key, value)

\* Bind.__set__ that writes the store at arg_key.
MutBindSetAtArgKey(bind, value) ==
    LET r == AppConfigSet(<<bind.arg_key>>, value) IN
    IF r.ok
    THEN [err |-> FALSE, config |-> r.node,
          inst |-> Put(inst, bind.cache_attr, value)]
    ELSE [err |-> TRUE, config |-> config, inst |-> inst]

\* Bind.__set__ without the set-cache: a write-through only.
MutBindSetNoCache(bind, value) ==
    LET r == AppConfigSet(bind.config_path, value) IN
    IF r.ok THEN [err |-> FALSE, config |-> r.node, inst |-> inst]
    ELSE [err |-> TRUE, config |-> config, inst |-> inst]

\* __set__ that caches the value before it writes the store, so that the
\* cache is set when the store raises.
MutBindSetCacheFirst(bind, value) ==
    LET r == AppConfigSet(bind.config_path, value)
        cached == IF bind.cache_attr # NoStr
                  THEN Put(inst, bind.cache_attr, value) ELSE inst
    IN  IF r.ok
        THEN [err |-> FALSE, config |-> r.node, inst |-> cached]
        ELSE [err |-> TRUE, config |-> config, inst |-> cached]

\* Bind.__set__: instance.set(config_path, value), then the set-cache.  The
\* store, the instance __dict__ and whether store.set raised.
BindSet(bind, value) ==
    LET r == AppConfigSet(bind.config_path, value) IN
    IF r.ok
    THEN [err |-> FALSE, config |-> r.node,
          inst |-> IF bind.cache_attr # NoStr
                   THEN Put(inst, bind.cache_attr, value) ELSE inst]
    ELSE [err |-> TRUE, config |-> config, inst |-> inst]

\* AppConfig.__setattr__: instance.<name> = value
SetAttr(name, value) ==
    /\ nops < MaxOps
    /\ nops' = nops + 1
    /\ IF IsBound(name)
       THEN LET r == BindSet(BindOf(name), value) IN
            /\ config' = r.config
            /\ inst' = r.inst
            /\ last' = [Call("setattr", name, BindOf(name).config_path, value)
                            EXCEPT !.bound = TRUE, !.err = r.err]
       ELSE /\ inst' = Put(inst, name, value)
            /\ config' = config
            /\ last' = Call("setattr", name, <<>>, value)
    /\ UNCHANGED <<mro, providers, args, defaults, bind_defaults, files, other>>

\* AppConfig.set that goes through the descriptors: the bindings whose
\* config_path is the key get the value in their set-cache.
MutSetThroughBind(key, value) ==
    /\ nops < MaxOps
    /\ nops' = nops + 1
    /\ StoreIndex(1) # 0
    /\ LET r == AppConfigSet(key, value)
           hit == {BindOf(n).cache_attr : n \in {m \in BoundNames : BindOf(m).config_path = key}}
       IN
        /\ config' = IF r.ok THEN r.node ELSE config
        /\ inst' = [a \in (DOMAIN inst) \cup hit |-> IF a \in hit THEN value ELSE inst[a]]
        /\ last' = IF r.ok THEN Call("set", NoStr, key, value)
                   ELSE [Call("set", NoStr, key, value) EXCEPT
                            !.err = TRUE, !.exc = "ValueError", !.msg = r.msg,
                            !.at = r.at]
    /\ UNCHANGED <<mro, providers, args, defaults, bind_defaults, files, other>>

\* AppConfig.set(key, value)
Set(key, value) ==
    /\ nops < MaxOps
    /\ nops' = nops + 1
    /\ StoreIndex(1) # 0
    /\ LET r == AppConfigSet(key, value) IN
        /\ config' = IF r.ok THEN r.node ELSE config
        /\ last' = IF r.ok THEN Call("set", NoStr, key, value)
                   ELSE [Call("set", NoStr, key, value) EXCEPT
                            !.err = TRUE, !.exc = "ValueError", !.msg = r.msg,
                            !.at = r.at]
    /\ UNCHANGED <<mro, providers, args, defaults, bind_defaults, inst, files, other>>

\* The path the store was loaded from, and another one.
OriginPath == "config.yaml"
OtherPath == "output.yaml"

\* save that writes the file the store was loaded from, whatever path is given.
MutSaveOrigin(path) ==
    /\ nops < MaxOps
    /\ nops' = nops + 1
    /\ StoreIndex(1) # 0
    /\ files' = Put(files, OriginPath, YamlDump(config))
    /\ last' = Call("save", path, <<>>, None)
    /\ UNCHANGED <<mro, providers, args, defaults, config, bind_defaults, inst, other>>

\* AppConfig.save(path): OmegaConfProvider.save; NoStr is path=None.  The
\* call record keeps the path asked for.
Save(path) ==
    /\ nops < MaxOps
    /\ nops' = nops + 1
    /\ StoreIndex(1) # 0
    /\ LET save_path == IF path # NoStr THEN path ELSE OriginPath IN
        /\ files' = Put(files, save_path, YamlDump(config))
        /\ last' = Call("save", path, <<>>, None)
    /\ UNCHANGED <<mro, providers, args, defaults, config, bind_defaults, inst, other>>

\* What a read of each bound property returns on the current object.
ReadsNow == [n \in BoundNames |-> BindGet(BindOf(n)).value]

\* Two objects whose set-caches are one: the cache kept on the descriptor,
\* which the objects of a type share, instead of in the object's __dict__.
MutSwitchSharedCache ==
    /\ other # None
    /\ providers' = other.providers
    /\ args' = other.args
    /\ defaults' = other.defaults
    /\ config' = other.config
    /\ bind_defaults' = other.bind_defaults
    /\ inst' = inst
    /\ other' = [id |-> 3 - other.id, providers |-> providers, args |-> args,
                 defaults |-> defaults, config |-> config,
                 bind_defaults |-> bind_defaults, inst |-> inst,
                 reads |-> ReadsNow]
    /\ last' = Call("switch", NoStr, <<>>, other.reads)
    /\ UNCHANGED <<mro, files, nops>>

\* The next calls are made on the other object of the type.  The class and
\* its descriptors (mro) are the same for both; the providers, the store,
\* bind_defaults and the __dict__ are each object's own.  The object left
\* keeps, in `reads`, what its bound properties read at that moment; the
\* call record holds the `reads` of the object the calls go to.
Switch ==
    /\ other # None
    /\ providers' = other.providers
    /\ args' = other.args
    /\ defaults' = other.defaults
    /\ config' = other.config
    /\ bind_defaults' = other.bind_defaults
    /\ inst' = other.inst
    /\ other' = [id |-> 3 - other.id, providers |-> providers, args |-> args,
                 defaults |-> defaults, config |-> config,
                 bind_defaults |-> bind_defaults, inst |-> inst,
                 reads |-> ReadsNow]
    /\ last' = Call("switch", NoStr, <<>>, other.reads)
    /\ UNCHANGED <<mro, files, nops>>

(***************************************************************************)
(* Inputs: the values, keys, documents, classes and namespaces tried.      *)
(***************************************************************************)
Map1(k, v) == [x \in {k} |-> v]
Map2(k1, v1, k2, v2) == [x \in {k1, k2} |-> IF x = k1 THEN v1 ELSE v2]

PortPath == <<"server", "port">>
ExtraPath == <<"extra">>

\* Values written by assignments and sets.
WriteVals == {None, PyInt(9), List(<<PyInt(9), PyInt(8)>>)}
\* Values AppConfig.set is called with.
SetVals == {None, PyInt(8)}
\* Keys AppConfig.set is called with.
SetKeys == {PortPath, <<"server">>, <<"extra", "5">>, <<"private", "port">>}
\* Names assigned to: the bound ones and a plain one.
AttrNames == {"port", "items", "local_value"}
\* Store keys looked at by the frame conditions.
Keys == SetKeys \cup {ExtraPath, <<"server", "host">>, <<"port">>,
                      <<"server_port">>, <<"items">>, <<"extra", "0">>}

\* YAML documents the store is loaded from.
DocPort == DictConfig(Map2("server", DictConfig(Map2("port", PyInt(1), "host", PyInt(6))),
                           "extra", ListConfig(<<PyInt(3), PyInt(1)>>)))
DocHost == DictConfig(Map1("server", DictConfig(Map1("host", PyInt(6)))))
DocNull == DictConfig(Map2("server", DictConfig(Map1("port", None)),
                           "extra", PyInt(7)))
Docs == {DocPort, DocHost, DocNull}

\* Class bodies (MyConfig(AppConfig)) with two bindings.
ClassTests ==
    Map2("port", Declare("port", BindInit("Bind", PortPath, NoStr, NoStr, FALSE, None)),
         "items", Declare("items", BindInit("Bind", ExtraPath, "items", "append", FALSE, None)))
ClassConv ==
    Map2("port", Declare("port", BindInit("Bind", PortPath, "server_port", NoStr, TRUE, PyInt(3))),
         "items", Declare("items", BindInit("Bind", ExtraPath, NoStr, "append", TRUE, None)))
ClassDefault ==
    Map2("port", Declare("port", BindInit("BindDefault", PortPath, NoStr, NoStr, FALSE, PyInt(3))),
         "items", Declare("items", BindInit("Bind", ExtraPath, NoStr, NoStr, FALSE,
                                            List(<<PyInt(7)>>))))
ClassAppend ==
    Map2("port", Declare("port", BindInit("Bind", PortPath, NoStr, "append", TRUE, None)),
         "items", Declare("items", BindInit("BindDefault", ExtraPath, "port", "append", FALSE,
                                            List(<<PyInt(7)>>))))
Classes == {ClassTests, ClassConv, ClassDefault, ClassAppend}

\* A class whose body holds port = 0, and one that binds port to a top-level
\* key of the store.
ClassPlainPort == Map1("port", PyInt(0))
ClassTopPort ==
    Map1("port", Declare("port", BindInit("Bind", <<"port">>, NoStr, NoStr, FALSE, None)))
\* type(self).__mro__ below AppConfig, most derived class first: one class, or
\* a class derived from another that declares the same name.
Mros == {<<c>> : c \in Classes}
            \cup {<<ClassPlainPort, ClassTests>>, <<ClassTopPort, ClassTests>>,
                  <<ClassConv, ClassPlainPort>>}

\* What AppConfig is constructed with: the document of the config file, the
\* argparse Namespace (hasArgs FALSE: args=None) and bind_defaults.
Setup(doc, hasArgs, ns, bd) == [doc |-> doc, hasArgs |-> hasArgs, ns |-> ns, bd |-> bd]
Setups ==
    { Setup(DocPort, TRUE, Map2("port", PyInt(2), "items", List(<<PyInt(2), PyInt(1)>>)),
            EmptyMap),
      Setup(DocHost, FALSE, EmptyMap,
            Map2("port", PyInt(5), "items", List(<<PyInt(5)>>))),
      Setup(DocNull, TRUE, Map2("port", DefaultedValue(PyInt(4)), "items", None),
            EmptyMap),
      Setup(DocPort, TRUE, Map2("server_port", List(<<PyInt(5)>>), "items", PyInt(5)),
            Map1("port", PyInt(5))) }

(***************************************************************************)
(* AppConfig.__init__(config_path, args, bind_defaults) on a class.        *)
(***************************************************************************)
\* __init__ that appends the document store before the argument provider.
MutAppConfigInitStoreFirst(classes, doc, hasArgs, ns, bd) ==
    /\ mro = classes
    /\ providers = IF hasArgs THEN <<StoreProvider, ArgsProvider>>
                              ELSE <<StoreProvider>>
    /\ args = IF hasArgs THEN ns ELSE EmptyMap
    /\ defaults = EmptyMap
    /\ files = Map1(OriginPath, YamlDump(doc))
    /\ config = OmegaConfigLoaderLoadRaw(files, OriginPath).node
    /\ bind_defaults = bd
    /\ inst = EmptyMap
    /\ last = Call("init", NoStr, <<>>, None)
    /\ nops = 0
    /\ other = None

AppConfigInit(classes, doc, hasArgs, ns, bd) ==
    /\ mro = classes
    /\ providers = IF hasArgs THEN <<ArgsProvider, StoreProvider>>
                              ELSE <<StoreProvider>>
    /\ args = IF hasArgs THEN ns ELSE EmptyMap
    /\ defaults = EmptyMap
    /\ files = Map1(OriginPath, YamlDump(doc))
    /\ config = OmegaConfigLoaderLoadRaw(files, OriginPath).node
    /\ bind_defaults = bd
    /\ inst = EmptyMap
    /\ last = Call("init", NoStr, <<>>, None)
    /\ nops = 0
    /\ other = None

Init ==
    \E classes \in Mros, s \in Setups :
        AppConfigInit(classes, s.doc, s.hasArgs, s.ns, s.bd)

Next ==
    \/ \E name \in AttrNames : Get(name)
    \/ \E name \in AttrNames, value \in WriteVals : SetAttr(name, value)
    \/ \E key \in SetKeys, value \in SetVals : Set(key, value)
    \/ \E path \in {NoStr, OtherPath} : Save(path)

Spec == Init /\ [][Next]_vars

(***************************************************************************)
(* Resolution alone: every descriptor over every combination of sources,   *)
(* read on a freshly constructed config object.                            *)
(***************************************************************************)
DocList == DictConfig(Map1("server", DictConfig(Map1("port", ListConfig(<<PyInt(3), PyInt(1)>>)))))
DocScalar == DictConfig(Map1("server", PyInt(6)))
ResolveDocs == {DocPort, DocHost, DocNull, DocList, DocScalar}

ResolveArgVals ==
    {None, PyInt(2), List(<<PyInt(2), PyInt(1)>>), DefaultedValue(PyInt(4)),
     DefaultedValue(PyInt(0)), DefaultedValue(List(<<PyInt(4)>>))}
ResolveNamespaces ==
    {EmptyMap} \cup {Map1(k, v) : k \in {"port", "server_port"}, v \in ResolveArgVals}
ResolveBindDefaults == {EmptyMap, Map1("port", PyInt(5)), Map1("server_port", PyInt(5))}
ResolveClasses ==
    { Map1("port", Declare("port", BindInit(cls, PortPath, ak, act, conv, dflt))) :
        cls \in {"Bind", "BindDefault"}, ak \in {NoStr, "server_port"},
        act \in {NoStr, "append"}, conv \in BOOLEAN, dflt \in {None, PyInt(3)} }

InitResolve ==
    \E cls \in ResolveClasses, doc \in ResolveDocs, bd \in ResolveBindDefaults :
        \/ \E ns \in ResolveNamespaces : AppConfigInit(<<cls>>, doc, TRUE, ns, bd)
        \/ AppConfigInit(<<cls>>, doc, FALSE, EmptyMap, bd)

NextResolve == \E name \in AttrNames : Get(name)

SpecResolve == InitResolve /\ [][NextResolve]_vars

(***************************************************************************)
(* A config object whose argument provider is an ArgParseProvider, built   *)
(* from an ArgumentParser (dest -> default), extra defaults and the        *)
(* arguments given on the command line.                                    *)
(***************************************************************************)
\* argparse.SUPPRESS as an action's default
Suppress == [t |-> "suppress"]

\* _DefaultsExtractor.extract: the defaults of the actions that have one
DefaultsExtractorExtract(parser) ==
    [dest \in {d \in DOMAIN parser : parser[d] # Suppress} |-> parser[dest]]

\* extracted | defaults: the right operand wins
DictUnion(f, g) ==
    [k \in (DOMAIN f) \cup (DOMAIN g) |-> IF k \in DOMAIN g THEN g[k] ELSE f[k]]

\* ArgParseProvider.__init__: every default is suppressed before
\* parse_args, so the Namespace holds the arguments given (cli) only.
ArgParseProviderInit(parser, extra, cli) ==
    [args |-> cli, defaults |-> DictUnion(DefaultsExtractorExtract(parser), extra)]

Parsers == { Map1("port", None), Map1("port", PyInt(8)),
             Map2("port", List(<<PyInt(8)>>), "server_port", PyInt(8)),
             Map2("port", Suppress, "server_port", PyInt(8)) }
ExtraDefaults == {EmptyMap, Map1("port", PyInt(5))}
CommandLines == {EmptyMap, Map1("port", PyInt(9))}

\* ArgNamespaceProvider.__init__(args, defaults): defaults or {}
ArgNamespaceProviderInit(ns, dflts) ==
    [args |-> ns, defaults |-> IF dflts = None THEN EmptyMap ELSE dflts]

\* Providers built from a Namespace directly: Namespace(port=None) with and
\* without defaults, Namespace(port=9) with defaults.
NamespaceProviders ==
    { ArgNamespaceProviderInit(Map1("port", None), Map1("port", PyInt(8))),
      ArgNamespaceProviderInit(Map1("port", None), None),
      ArgNamespaceProviderInit(Map2("port", None, "server_port", None),
                               Map1("server_port", PyInt(8))),
      ArgNamespaceProviderInit(Map1("port", PyInt(9)), Map1("port", PyInt(8))) }

ArgProviders ==
    {ArgParseProviderInit(parser, extra, cli) :
        parser \in Parsers, extra \in ExtraDefaults, cli \in CommandLines}
        \cup NamespaceProviders

InitArgParse ==
    \E cls \in ResolveClasses, doc \in {DocPort, DocHost},
       bd \in {EmptyMap, Map1("port", PyInt(5))}, prov \in ArgProviders :
        /\ mro = <<cls>>
        /\ providers = <<ArgsProvider, StoreProvider>>
        /\ args = prov.args
        /\ defaults = prov.defaults
        /\ files = Map1(OriginPath, YamlDump(doc))
        /\ config = OmegaConfigLoaderLoadRaw(files, OriginPath).node
        /\ bind_defaults = bd
        /\ inst = EmptyMap
        /\ last = Call("init", NoStr, <<>>, None)
        /\ nops = 0
        /\ other = None

NextArgParse == \E name \in AttrNames : Get(name)

SpecArgParse == InitArgParse /\ [][NextArgParse]_vars

(***************************************************************************)
(* Two config objects of one class, each constructed from the same config  *)
(* file with a Namespace of its own, and calls made on either of them.     *)
(***************************************************************************)
TwoClasses == {ClassTests, ClassConv}

InitTwo ==
    \E cls \in TwoClasses, s \in Setups :
        /\ mro = <<cls>>
        /\ providers = IF s.hasArgs THEN <<ArgsProvider, StoreProvider>>
                                    ELSE <<StoreProvider>>
        /\ args = IF s.hasArgs THEN s.ns ELSE EmptyMap
        /\ defaults = EmptyMap
        /\ files = Map1(OriginPath, YamlDump(s.doc))
        /\ config = OmegaConfigLoaderLoadRaw(files, OriginPath).node
        /\ bind_defaults = s.bd
        /\ inst = EmptyMap
        /\ last = Call("init", NoStr, <<>>, None)
        /\ nops = 0
        /\ other = [id |-> 2, providers |-> providers, args |-> args,
                    defaults |-> defaults, config |-> config,
                    bind_defaults |-> bind_defaults, inst |-> EmptyMap,
                    reads |-> None]

NextTwo ==
    \/ \E name \in AttrNames : Get(name)
    \/ \E name \in AttrNames, value \in WriteVals : SetAttr(name, value)
    \/ Switch

SpecTwo == InitTwo /\ [][NextTwo]_vars

(***************************************************************************)
(* The store alone: documents with nested mappings and lists, and set      *)
(* called with keys that address them, miss them or cannot address them.   *)
(***************************************************************************)
StoreDocNested ==
    DictConfig(Map2("server", DictConfig(Map2("port", PyInt(1), "host", PyInt(6))),
                    "items", ListConfig(<<DictConfig(Map1("name", PyInt(2))),
                                          ListConfig(<<PyInt(4)>>)>>)))
StoreDocNull ==
    DictConfig(Map2("server", None, "items", ListConfig(<<PyInt(3), PyInt(1)>>)))
StoreDocs == {StoreDocNested, StoreDocNull, DocPort, DocScalar}

StoreKeys ==
    { <<"top">>, PortPath, <<"server", "host", "x">>, <<"a", "b", "c">>,
      <<"items", "0">>, <<"items", "2">>, <<"items", "-1">>, <<"items", "x">>,
      <<"items", "0", "name">>, <<"items", "1", "0">>, <<"items", "2", "name">>,
      <<"extra", "1">>, <<"extra", "0", "y">> }
StoreVals == {None, PyInt(8), List(<<PyInt(9)>>)}

InitStore ==
    \E doc \in StoreDocs : AppConfigInit(<<ClassTests>>, doc, FALSE, EmptyMap, EmptyMap)

NextStore == \E key \in StoreKeys, value \in StoreVals : Set(key, value)

SpecStore == InitStore /\ [][NextStore]_vars

(***************************************************************************)
(* Properties.                                                             *)
(***************************************************************************)
\* The step just taken was a bound write to `name` that did not raise.
WroteBound(name) ==
    last'.op = "setattr" /\ last'.bound /\ ~last'.err /\ last'.name = name

\* The set-cache of binding b holds a value.
Cached(b) == b.cache_attr \in DOMAIN inst

\* C1: after a bound-property write instance.prop = v that did not raise, the
\* very next read of prop returns exactly v: not converted (the converter is
\* not called) and not merged with any source.
C1_SetThenGet ==
    [][ (last.op = "setattr" /\ last.bound /\ ~last.err
            /\ last'.op = "get" /\ last'.name = last.name)
        => (last'.value = last.arg /\ last'.calls = <<>> /\ last'.cached) ]_vars

\* A read answered with the written value although the sources, the defaults
\* and the converter would give another one.
C1_Witness ==
    /\ last.op = "get" /\ last.cached /\ last.name = "port"
    /\ last.value = PyInt(9)
    /\ BindOf("port").converter
    /\ ArgsProvider = providers[1]
    /\ ResolveBind(BindOf("port")).value \notin {None, PyInt(9)}

\* C2: while the set-cache of a non-APPEND binding holds V, a direct set (also
\* at its own config_path), a save, a plain attribute assignment, a read or a
\* write to another property leaves the cache at V, and a read returns V
\* without asking any source; only a bound write to the property changes it.
C2_CacheWins ==
    [][ \A n \in BoundNames :
          LET b == BindOf(n) IN
          (b.action # "append" /\ Cached(b) /\ ~WroteBound(n))
          => /\ b.cache_attr \in DOMAIN inst'
             /\ inst'[b.cache_attr] = inst[b.cache_attr]
             /\ (BindGet(b).value)' = inst[b.cache_attr]
             /\ (BindGet(b).cached)'
             /\ (last'.op = "get" /\ last'.name = n)
                => (last'.value = inst[b.cache_attr] /\ last'.cached
                    /\ last'.calls = <<>> /\ args' = args) ]_vars

\* A cached read of port after the store was set directly at port's own
\* config_path to another value.
C2_Witness ==
    /\ last.op = "get" /\ last.cached /\ last.name = "port"
    /\ BindOf("port").action # "append"
    /\ last.value = PyInt(9)
    /\ Select(config, PortPath) = PyInt(8)

\* The first element of a sequence of values that is not None (None: none).
RECURSIVE FirstNonNone(_)
FirstNonNone(vs) ==
    IF vs = <<>> THEN None
    ELSE IF Head(vs) # None THEN Head(vs)
    ELSE FirstNonNone(Tail(vs))

\* The arg_key values given explicitly to a Bind of ResolveClasses.
ExplicitArgKeys == {"server_port"}
\* The key a binding is looked up under in the argument source: the arg_key
\* given, else the name the property is declared under.
AltKey(b) == IF b.arg_key \in ExplicitArgKeys THEN b.arg_key ELSE b.property_name

HasArgs == \E i \in 1..Len(providers) : providers[i] = ArgsProvider
\* What the argument source answers for a binding (None without one).
ArgAnswer(b) == IF HasArgs THEN ArgNamespaceProviderGet(AltKey(b)) ELSE None
\* Its answer when it is a real value, not a DefaultedValue.
ArgReal(b) == IF IsDefaultedValue(ArgAnswer(b)) THEN None ELSE ArgAnswer(b)
StoreAnswer(b) == Select(config, b.config_path)

\* The last call was a read of a bound property that went through resolution.
Resolved == last.op = "get" /\ ~last.cached

\* C3: for a non-APPEND binding with an empty cache the value before
\* conversion is the first non-None of: the argument source's real value under
\* altKey, the store's value at config_path, bind_defaults[property name], the
\* Bind default.
C3_Precedence ==
    (Resolved /\ BindOf(last.name).action # "append")
    => LET b == BindOf(last.name)
           cands == <<ArgReal(b), StoreAnswer(b),
                      DictGet(bind_defaults, last.name), b.default>>
       IN  (\E i \in 1..4 : cands[i] # None) => last.raw = FirstNonNone(cands)

\* All four candidates are there and the argument value is the one read.
C3_Witness ==
    /\ Resolved /\ BindOf(last.name).action # "append"
    /\ ArgReal(BindOf(last.name)) = PyInt(2)
    /\ StoreAnswer(BindOf(last.name)) = PyInt(1)
    /\ DictGet(bind_defaults, last.name) = PyInt(5)
    /\ BindOf(last.name).default = PyInt(3)
    /\ last.raw = PyInt(2)

\* C4: when the argument source answers with a DefaultedValue, the value
\* before conversion is the first non-None of: the store's value,
\* bind_defaults[property name], the Bind default, the unwrapped marker.
C4_MarkerLast ==
    (Resolved /\ IsDefaultedValue(ArgAnswer(BindOf(last.name))))
    => LET b == BindOf(last.name)
       IN  last.raw = FirstNonNone(<<StoreAnswer(b), DictGet(bind_defaults, last.name),
                                     b.default, ArgAnswer(b).value>>)

\* The marker's value is read: nothing else answers.
C4_Witness ==
    /\ Resolved
    /\ ArgAnswer(BindOf(last.name)) = DefaultedValue(PyInt(4))
    /\ StoreAnswer(BindOf(last.name)) = None
    /\ DictGet(bind_defaults, last.name) = None
    /\ BindOf(last.name).default = None
    /\ last.raw = PyInt(4)

\* The store's value is read although the argument source, asked first,
\* answered with a marker.
C4_WitnessStore ==
    /\ Resolved
    /\ ArgAnswer(BindOf(last.name)) = DefaultedValue(PyInt(4))
    /\ StoreAnswer(BindOf(last.name)) = PyInt(1)
    /\ last.raw = PyInt(1)

ReadAppend(b) ==
    /\ last'.op = "get" /\ ~last'.cached /\ b = BindOf(last'.name)
    /\ b.action = "append" /\ ~Cached(b)

\* The elements a source's value contributes when a non-list counts as a
\* one-element list.
AsItems(v) == IF v = None THEN <<>> ELSE IF IsListOrListConfig(v) THEN v.l ELSE <<v>>

\* C6: for an APPEND binding with an empty cache, when the argument source
\* gives a list and the store gives a list, the value before conversion is
\* the argument list followed by the store list, elements in their order.
C6_AppendLists ==
    [][ \A n \in BoundNames :
          LET b == BindOf(n) IN
          (ReadAppend(b) /\ IsList(ArgAnswer(b)) /\ IsListOrListConfig(StoreAnswer(b)))
          => last'.raw = List(ArgAnswer(b).l \o StoreAnswer(b).l) ]_vars

\* The argument list [2, 1] and the store list [3, 1] read as [2, 1, 3, 1].
C6_Witness ==
    /\ Resolved /\ BindOf(last.name).action = "append"
    /\ StoreAnswer(BindOf(last.name)) = ListConfig(<<PyInt(3), PyInt(1)>>)
    /\ last.raw = List(<<PyInt(2), PyInt(1), PyInt(3), PyInt(1)>>)

\* C7 as stated: for an APPEND binding with an empty cache the value before
\* conversion is the concatenation, in source order, of the real non-None
\* values of all sources, a non-list value counting as a one-element list.
C7_ConcatAll ==
    [][ \A n \in BoundNames :
          LET b == BindOf(n) IN
          (ReadAppend(b) /\ (ArgReal(b) # None \/ StoreAnswer(b) # None))
          => /\ IsListOrListConfig(last'.raw)
             /\ last'.raw.l = AsItems(ArgReal(b)) \o AsItems(StoreAnswer(b)) ]_vars

\* C7 amended: when the argument source gives a real plain list, the value
\* before conversion is that list followed by the store's value (a list
\* element by element, another value as one element, None not at all);
\* otherwise it is the first real non-None value by itself, as it is.
C7_ConcatAfterList ==
    [][ \A n \in BoundNames :
          LET b == BindOf(n) IN
          (ReadAppend(b) /\ (ArgReal(b) # None \/ StoreAnswer(b) # None))
          => last'.raw = IF ArgReal(b) = None THEN StoreAnswer(b)
                         ELSE IF IsList(ArgReal(b))
                         THEN List(ArgReal(b).l \o AsItems(StoreAnswer(b)))
                         ELSE ArgReal(b) ]_vars

\* The argument list [2, 1] and the store's scalar 1 read as [2, 1, 1].
C7_Witness ==
    /\ Resolved /\ BindOf(last.name).action = "append"
    /\ StoreAnswer(BindOf(last.name)) = PyInt(1)
    /\ last.raw = List(<<PyInt(2), PyInt(1), PyInt(1)>>)

\* C8: on a read through resolution of a binding with a converter, the
\* converter is called on each element of a list-valued result in order (the
\* value read has the same length), once on a scalar result, and not at all
\* on None, which is read as None.
C8_Converter ==
    (Resolved /\ BindOf(last.name).converter)
    => IF last.raw = None
       THEN last.calls = <<>> /\ last.value = None
       ELSE IF IsListOrListConfig(last.raw)
       THEN /\ last.calls = last.raw.l
            /\ IsList(last.value)
            /\ Len(last.value.l) = Len(last.raw.l)
            /\ \A j \in 1..Len(last.raw.l) : last.value.l[j] = Converter(last.raw.l[j])
       ELSE last.calls = <<last.raw>> /\ last.value = Converter(last.raw)

\* The store's list [3, 1] read through the converter as [13, 11].
C8_Witness ==
    /\ Resolved /\ BindOf(last.name).converter
    /\ last.raw = ListConfig(<<PyInt(3), PyInt(1)>>)
    /\ last.calls = <<PyInt(3), PyInt(1)>>
    /\ last.value = List(<<PyInt(3 + ConvShift), PyInt(1 + ConvShift)>>)

\* p is a prefix of k (k itself included)
IsPrefix(p, k) == Len(p) <= Len(k) /\ SubSeq(k, 1, Len(p)) = p
\* k lies on the path of `path` or below it
Related(k, path) == IsPrefix(k, path) \/ IsPrefix(path, k)

\* What a bound write to b leaves alone besides the store.
WriteFrame(b) ==
    /\ \A a \in ((DOMAIN inst) \cup (DOMAIN inst')) \ {b.cache_attr} :
          a \in DOMAIN inst /\ a \in DOMAIN inst' /\ inst'[a] = inst[a]
    /\ args' = args
    /\ defaults' = defaults

\* C9 as stated: a bound write stores the value at the binding's config_path
\* and changes no other store key, no other cache and no argument value.
C9_OnlyStorePath ==
    [][ \A n \in BoundNames :
          LET b == BindOf(n) IN
          WroteBound(n)
          => /\ Select(config', b.config_path) = ToNode(last'.arg)
             /\ \A k \in Keys \ {b.config_path} : Select(config', k) = Select(config, k)
             /\ WriteFrame(b) ]_vars

\* C9 amended: a bound write stores the value at the binding's config_path,
\* not at arg_key, and changes no store key that is neither a prefix nor an
\* extension of config_path, no other cache and no argument value.
C9_StorePathAndFrame ==
    [][ \A n \in BoundNames :
          LET b == BindOf(n) IN
          WroteBound(n)
          => /\ Select(config', b.config_path) = ToNode(last'.arg)
             /\ <<b.arg_key>> # b.config_path
                => Select(config', <<b.arg_key>>) = Select(config, <<b.arg_key>>)
             /\ \A k \in Keys :
                  ~Related(k, b.config_path) => Select(config', k) = Select(config, k)
             /\ WriteFrame(b) ]_vars

\* port, looked up in the arguments as server_port, was written: the store
\* holds 9 at server.port, nothing at server_port, and server.host as before.
C9_Witness ==
    /\ last.op = "setattr" /\ last.bound /\ ~last.err /\ last.name = "port"
    /\ BindOf("port").arg_key = "server_port"
    /\ last.arg = PyInt(9)
    /\ Select(config, PortPath) = PyInt(9)
    /\ Select(config, <<"server_port">>) = None
    /\ Select(config, <<"server", "host">>) = PyInt(6)

\* No source answers for b and bind_defaults has no entry for it.
NothingMatches(b) ==
    ArgAnswer(b) = None /\ StoreAnswer(b) = None
        /\ DictGet(bind_defaults, b.property_name) = None

\* C10 as stated: when nothing matches, a read returns None for a Bind and
\* the static default for a BindDefault.
C10_NoneOrDefault ==
    (Resolved /\ NothingMatches(BindOf(last.name)))
    => LET b == BindOf(last.name)
       IN  IF b.cls = "BindDefault" THEN last.value = b.default
                                     ELSE last.value = None

\* C10 amended: when nothing matches, a read returns the static default,
\* converted if the binding has a converter, whenever that default is not
\* None (for a Bind as for a BindDefault), and None otherwise.
C10_DefaultOrNone ==
    (Resolved /\ NothingMatches(BindOf(last.name)))
    => LET b == BindOf(last.name)
       IN  last.value = IF b.default = None THEN None
                        ELSE IF b.converter THEN Converter(b.default)
                        ELSE b.default

\* A BindDefault with nothing matching read as its default, 3.
C10_Witness ==
    /\ Resolved /\ NothingMatches(BindOf(last.name))
    /\ BindOf(last.name).cls = "BindDefault"
    /\ BindOf(last.name).default = PyInt(3)
    /\ last.value = PyInt(3)

\* C11: a BindDefault is declared with a default that is not None, and a
\* read of a BindDefault property never returns None, whatever reads, bound
\* writes and direct sets came before.
C11_NeverNone ==
    (last.op = "get" /\ BindOf(last.name).cls = "BindDefault")
    => (BindOf(last.name).default # None /\ last.value # None)

\* C12: an attribute assignment goes to the first class of the chain, most
\* derived first, that declares the name.  If that declaration is a Bind,
\* the bound write runs (the store at config_path and the set-cache, or
\* nothing when the store raises); if it is anything else, or no class
\* declares the name, the value becomes a plain instance attribute and the
\* store, the caches and the sources stay as they are.
C12_SetAttrRouting ==
    [][ \A name \in AttrNames :
          (last'.op = "setattr" /\ last'.name = name)
          => LET decl == {i \in 1..Len(mro) : name \in DOMAIN mro[i]}
                 first == IF decl = {} THEN 0
                          ELSE CHOOSE i \in decl : \A j \in decl : i <= j
             IN  /\ args' = args /\ defaults' = defaults /\ files' = files
                 /\ IF first # 0 /\ IsBind(mro[first][name])
                    THEN LET b == mro[first][name] IN
                         /\ last'.bound
                         /\ IF last'.err
                            THEN config' = config /\ inst' = inst
                            ELSE /\ Select(config', b.config_path) = ToNode(last'.arg)
                                 /\ inst' = Put(inst, b.cache_attr, last'.arg)
                    ELSE /\ ~last'.bound
                         /\ inst' = Put(inst, name, last'.arg)
                         /\ config' = config ]_vars

\* port = 9 on an object whose class holds port = 0 and derives from a class
\* that binds port: a plain attribute, the store's server.port still 1.
C12_Witness ==
    /\ last.op = "setattr" /\ last.name = "port" /\ ~last.bound
    /\ Len(mro) = 2 /\ ~IsBind(mro[1]["port"]) /\ IsBind(mro[2]["port"])
    /\ inst = Map1("port", PyInt(9))
    /\ Select(config, PortPath) = PyInt(1)

\* What a read of the non-APPEND binding b falls back to when no source
\* answers: bind_defaults, the Bind default, the unwrapped marker.
Fallback(b) ==
    FirstNonNone(<<DictGet(bind_defaults, b.property_name), b.default,
                   IF IsDefaultedValue(ArgAnswer(b)) THEN ArgAnswer(b).value ELSE None>>)

\* C13 as stated: set(key, value) writes the store at key only and changes
\* no set-cache; afterwards an uncached non-APPEND binding whose config_path
\* is key and that has no real argument value reads value, and a binding with
\* a set-cache reads its cached value.
C13_SetThenReadValue ==
    [][ (last'.op = "set" /\ ~last'.err)
        => /\ inst' = inst /\ args' = args /\ defaults' = defaults /\ files' = files
           /\ Select(config', last'.key) = ToNode(last'.arg)
           /\ \A n \in BoundNames :
                LET b == BindOf(n) IN
                b.action # "append"
                => IF Cached(b)
                   THEN (BindGet(b).value)' = inst[b.cache_attr]
                   ELSE (b.config_path = last'.key /\ ArgReal(b) = None)
                        => (BindGet(b).value)' = last'.arg ]_vars

\* C13 amended: as above, but the uncached binding reads the value passed
\* through its converter when the value is not None, and what it falls back
\* to (bind_defaults, the Bind default, a marker's value, None) when it is.
C13_SetThenReadStore ==
    [][ (last'.op = "set" /\ ~last'.err)
        => /\ inst' = inst /\ args' = args /\ defaults' = defaults /\ files' = files
           /\ Select(config', last'.key) = ToNode(last'.arg)
           /\ \A n \in BoundNames :
                LET b == BindOf(n) IN
                b.action # "append"
                => IF Cached(b)
                   THEN (BindGet(b).value)' = inst[b.cache_attr]
                   ELSE (b.config_path = last'.key /\ ArgReal(b) = None)
                        => LET raw == IF last'.arg # None THEN ToNode(last'.arg)
                                                          ELSE Fallback(b)
                           IN  /\ (BindGet(b).raw)' = raw
                               /\ (BindGet(b).value)' = Convert(raw, b).value ]_vars

\* set('server.port', 8) on an object without arguments whose port has a
\* converter and no set-cache: the store holds 8 and port reads 18.
C13_Witness ==
    /\ last.op = "set" /\ ~last.err /\ last.key = PortPath /\ last.arg = PyInt(8)
    /\ IsBound("port") /\ BindOf("port").converter /\ BindOf("port").action # "append"
    /\ ~Cached(BindOf("port")) /\ ArgReal(BindOf("port")) = None
    /\ BindGet(BindOf("port")).raw = PyInt(8)
    /\ BindGet(BindOf("port")).value = PyInt(8 + ConvShift)

\* The positions of the providers that are a BackingStore.
BackingStores == {i \in 1..Len(providers) : IsBackingStore(providers[i])}

\* C14: in every state exactly one provider is a BackingStore; it is the
\* document store, the last of the list, behind the argument provider when
\* arguments were given; and it is the provider _store picks for every set,
\* bound write and save.
C14_OneStore ==
    /\ Cardinality(BackingStores) = 1
    /\ BackingStores = {Len(providers)}
    /\ providers[Len(providers)] = StoreProvider
    /\ args # EmptyMap => providers = <<ArgsProvider, StoreProvider>>
    /\ StoreIndex(1) \in BackingStores

\* A bound write of 9 to port on an object built with arguments: the store,
\* second of two providers, holds it.
C14_Witness ==
    /\ last.op = "setattr" /\ last.bound /\ ~last.err
    /\ last.key = PortPath /\ last.arg = PyInt(9)
    /\ providers = <<ArgsProvider, StoreProvider>>
    /\ StoreIndex(1) = 2
    /\ Select(config, PortPath) = PyInt(9)

\* C15: a bound write on one object never changes what a read returns on
\* another object of the same type.  Whenever calls go back to an object,
\* each of its bound properties reads what it read when the object was left,
\* whatever reads and bound writes were made on the other object meanwhile.
C15_PerInstance ==
    (last.op = "switch" /\ last.arg # None)
    => \A n \in BoundNames : BindGet(BindOf(n)).value = last.arg[n]

\* Back on the first object after port = 9 on the second: the second holds 9
\* in its set-cache and its store, the first has no cache and reads another
\* value from its own sources.
C15_Witness ==
    /\ last.op = "switch" /\ other # None /\ other.id = 2
    /\ "_bind_cache_port" \in DOMAIN other.inst
    /\ other.inst["_bind_cache_port"] = PyInt(9)
    /\ Select(other.config, PortPath) = PyInt(9)
    /\ inst = EmptyMap
    /\ Select(config, PortPath) = PyInt(1)
    /\ BindGet(BindOf("port")).value \notin {None, PyInt(9)}

\* The file a save call writes: the path given, else the origin path.
SaveTarget(call) == IF call.name = NoStr THEN OriginPath ELSE call.name

Prefix(key, j) == SubSeq(key, 1, j)
\* Segment s is an index within the range of the list node n.
InRange(n, s) == IsIntStr(s) /\ ToInt(s) >= 0 /\ ToInt(s) < Len(n.l)
\* Segment j of key can be addressed: the path before it is missing (under a
\* missing dict key), or leads to a dict, or to a list that j indexes.
Addresses(cfg, key, j) ==
    \/ ~Has(cfg, Prefix(key, j - 1))
    \/ LET n == Select(cfg, Prefix(key, j - 1)) IN
       n.t = "dict" \/ (n.t = "listcfg" /\ InRange(n, key[j]))
\* Every intermediate segment of key is an existing dict key, an in-range
\* index of a list node, or a missing dict key.
IntermediateOk(cfg, key) == \A j \in 1..(Len(key) - 1) : Addresses(cfg, key, j)

\* The keys the frame of a store write is looked at.
FrameKeys == StoreKeys \cup Keys \cup {<<"server">>, <<"items">>, <<"a">>, <<"a", "b">>}

\* The step was set(key, v) without an error, get(key) returns v afterwards
\* and the keys that are neither prefix nor extension of key read as before.
SetThenGet ==
    /\ ~last'.err
    /\ OmegaConfigGet(config', last'.key) = ToNode(last'.arg)
    /\ \A k \in FrameKeys :
          ~Related(k, last'.key) => OmegaConfigGet(config', k) = OmegaConfigGet(config, k)

\* C17 as stated: set(key, v) then get(key) returns v for every key whose
\* intermediate segments are existing dict keys, in-range indices of list
\* nodes or missing dict keys; unrelated keys are unchanged.
C17_SetGetIntermediate ==
    [][ (last'.op = "set" /\ IntermediateOk(config, last'.key)) => SetThenGet ]_vars

\* C17 amended: the same for every key whose intermediate segments are as
\* above and whose last segment can be addressed too: the node it is
\* assigned in is a dict (existing or created), or a list it indexes in range.
C17_SetGetAddressable ==
    [][ (last'.op = "set" /\ IntermediateOk(config, last'.key)
            /\ Addresses(config, last'.key, Len(last'.key)))
        => SetThenGet ]_vars

\* set('items.0.name', 8) through a list index: read back as 8, the list's
\* second element and server.port as before.
C17_Witness ==
    /\ last.op = "set" /\ ~last.err
    /\ last.key = <<"items", "0", "name">> /\ last.arg = PyInt(8)
    /\ OmegaConfigGet(config, <<"items", "0", "name">>) = PyInt(8)
    /\ OmegaConfigGet(config, <<"items", "1", "0">>) = PyInt(4)
    /\ OmegaConfigGet(config, PortPath) = PyInt(1)

\* C18: set on a key with a non-integer or out-of-range index into a list
\* node, or that addresses into a node that is neither dict nor list, raises
\* a ValueError that marks the segment at which addressing failed (the first
\* such segment), and the store is left as it was.
C18_SetRaises ==
    [][ last'.op = "set"
        => LET bad == {j \in 1..Len(last'.key) : ~Addresses(config, last'.key, j)}
           IN  bad # {}
               => /\ last'.err /\ last'.exc = "ValueError"
                  /\ last'.at + 1 \in bad
                  /\ \A j \in bad : last'.at + 1 <= j
                  /\ config' = config ]_vars

\* set('items.2.name', ...) on a list of two: ValueError marking the second
\* segment, "2".
C18_Witness ==
    /\ last.op = "set" /\ last.err /\ last.exc = "ValueError"
    /\ last.key = <<"items", "2", "name">>
    /\ last.msg = "Invalid list index"
    /\ last.at = 1
    /\ Select(config, <<"items">>).t = "listcfg"

(***************************************************************************)
(* Construction from files: a config file with interpolations, with or     *)
(* without its companion private file (tests/test_private_config_error.py).*)
(***************************************************************************)
\* config.yaml
LoadMainPrivate == YMap(Map1("server", YMap(Map1("port", YRef(<<"private", "port">>)))))
LoadMainOther == YMap(Map1("server", YMap(Map1("port", YRef(<<"extra">>)))))
LoadMainMixed == YMap(Map2("server", YMap(Map1("port", YRef(<<"private", "port">>))),
                           "port", YRef(<<"extra">>)))
LoadMainInline == YMap(Map2("server", YMap(Map1("port", YRef(<<"private", "port">>))),
                            "private", YMap(Map1("port", YInt(5)))))
LoadMainPlain == YMap(Map2("server", YMap(Map1("port", YInt(1))), "port", YInt(2)))
LoadMains == {LoadMainPrivate, LoadMainOther, LoadMainMixed, LoadMainInline, LoadMainPlain}

\* config_private.yaml, when there is one
LoadPrivatePort == YMap(Map1("private", YMap(Map1("port", YInt(7)))))
LoadPrivateHost == YMap(Map1("private", YMap(Map1("host", YInt(6)))))
LoadPrivateExtra == YMap(Map2("private", YMap(Map1("port", YInt(7))), "extra", YInt(3)))
LoadPrivates == {LoadPrivatePort, LoadPrivateHost, LoadPrivateExtra}

LoadFiles ==
    {Map1(OriginPath, m) : m \in LoadMains}
        \cup {Map2(OriginPath, m, PrivateFile(OriginPath), p) :
                    m \in LoadMains, p \in LoadPrivates}

\* The files are written, the class is defined, no object is constructed yet.
InitLoad ==
    \E fs \in LoadFiles, cls \in {ClassTests, ClassTopPort} :
        /\ mro = <<cls>>
        /\ providers = <<>>
        /\ args = EmptyMap
        /\ defaults = EmptyMap
        /\ files = fs
        /\ config = None
        /\ bind_defaults = EmptyMap
        /\ inst = EmptyMap
        /\ last = Call("start", NoStr, <<>>, None)
        /\ nops = 0
        /\ other = None

\* MyConfig(config_file, args): AppConfig.__init__, in which
\* OmegaConfProvider.__init__ loads the file; what the loader raises leaves
\* no object behind.
Construct(hasArgs) ==
    /\ last.op = "start"
    /\ LET r == OmegaConfigLoaderLoadRaw(files, OriginPath) IN
        IF r.ok
        THEN /\ providers' = IF hasArgs THEN <<ArgsProvider, StoreProvider>>
                                        ELSE <<StoreProvider>>
             /\ config' = r.node
             /\ last' = Call("load", OriginPath, <<>>, None)
        ELSE \E e \in r.errors :
                /\ providers' = providers
                /\ config' = config
                /\ last' = [Call("load", OriginPath, e.key, None) EXCEPT
                                !.err = TRUE, !.exc = e.exc, !.msg = e.msg]
    /\ UNCHANGED <<mro, args, defaults, bind_defaults, inst, files, nops, other>>

NextLoad ==
    \/ \E hasArgs \in BOOLEAN : Construct(hasArgs)
    \/ providers # <<>> /\ \E name \in AttrNames : Get(name)

SpecLoad == InitLoad /\ [][NextLoad]_vars

\* The tree the loader resolves, and the keys of it that are not found.
MergedNow == LoadMerged(files, OriginPath)
UnresolvedNow == Unresolved(MergedNow)
PrivateExists == PrivateFile(OriginPath) \in DOMAIN files

\* Loading raised PrivateConfigError for an unresolved key under private.,
\* with the message that fits the companion file.
RaisedPrivate ==
    /\ last.err /\ last.exc = "PrivateConfigError"
    /\ last.key \in UnresolvedNow /\ IsPrivateKey(last.key)
    /\ last.msg = IF PrivateExists THEN "is missing key" ELSE "was not found"

\* Loading raised the InterpolationKeyError of an unresolved key outside
\* private., as it came.
RaisedOriginal ==
    /\ last.err /\ last.exc = "InterpolationKeyError"
    /\ last.key \in UnresolvedNow /\ ~IsPrivateKey(last.key)

\* The object exists, and each bound property whose store key holds an
\* interpolation reads what the interpolation's key holds.
ReadsDefined ==
    /\ providers # <<>>
    /\ ~(config.t = "dict" /\ "private" \in DOMAIN config.d)
    /\ \A n \in BoundNames :
          LET key == BindOf(n).config_path IN
            (Has(MergedNow, key) /\ Select(MergedNow, key).t = "interp")
                => BindGet(BindOf(n)).value = Select(MergedNow, Select(MergedNow, key).key)

ArgKeys == {"port", "server_port", "items", "nonexistent"}

\* The Namespace has no attribute `key`, or has it as None.
NoArgument(key) == key \notin DOMAIN args \/ args[key] = None

\* C20: the argument source's get(key) returns the Namespace's attribute
\* `key` when it is there and not None; otherwise the provider's own
\* defaults entry for key, None when there is none.  So when the argument
\* is missing or None and the provider has no default for it, a non-APPEND
\* read takes the store's value.
C20_ArgumentGet ==
    /\ \A key \in ArgKeys :
          ArgNamespaceProviderGet(key) =
            IF ~NoArgument(key) THEN args[key]
            ELSE IF key \in DOMAIN defaults THEN defaults[key]
            ELSE None
    /\ Resolved
        => LET b == BindOf(last.name) IN
             (/\ b.action # "append"
              /\ NoArgument(AltKey(b))
              /\ DictGet(defaults, AltKey(b)) = None
              /\ StoreAnswer(b) # None)
             => last.raw = StoreAnswer(b)

\* Namespace(port=None), no default for port, store server.port = 1: the
\* provider answers None for port and the read gives 1.
C20_Witness ==
    /\ Resolved /\ last.name = "port"
    /\ "port" \in DOMAIN args /\ args["port"] = None
    /\ AltKey(BindOf("port")) = "port"
    /\ BindOf("port").action # "append"
    /\ ArgNamespaceProviderGet("port") = None
    /\ StoreAnswer(BindOf("port")) = PyInt(1)
    /\ last.raw = PyInt(1)

\* C21: a read of a bound property has no side effect: it leaves the
\* Namespace, the provider's defaults, the store and the instance's caches
\* as they were, and a read that directly follows a read of the same
\* property returns an equal value.
C21_ReadIsPure ==
    [][ last'.op = "get"
        => /\ args' = args /\ defaults' = defaults
           /\ config' = config /\ inst' = inst
           /\ (last.op = "get" /\ last.name = last'.name)
                => last'.value = last.value ]_vars

DisplayNames ==
    {n \in UNION {DOMAIN mro[i] : i \in 1..Len(mro)} :
        \E i \in 1..Len(mro) : n \in DOMAIN mro[i] /\ IsBind(mro[i][n])}

\* binds[name] after the walk over reversed(__mro__): the Bind of the most
\* derived class that declares `name` as a Bind (declarations that are no
\* Bind are passed over).
RECURSIVE DisplayBindFrom(_, _)
DisplayBindFrom(name, i) ==
    IF name \in DOMAIN mro[i] /\ IsBind(mro[i][name]) THEN mro[i][name]
    ELSE DisplayBindFrom(name, i + 1)
DisplayBind(name) == DisplayBindFrom(name, 1)

\* The orders the names can stand in in `binds`: the order of the class
\* bodies, base class first (a class here stands for every order of its
\* body).
DisplayOrders ==
    {o \in [1..Cardinality(DisplayNames) -> DisplayNames] :
        \A i, j \in 1..Cardinality(DisplayNames) : o[i] = o[j] => i = j}

\* Where the list object lives that _resolve_bind returns as it is (no
\* converter: _convert returns its argument).
ResolveAlias(self, bind) ==
    LET acc == ResolveLoop(self, bind, 1, ResolveStart) IN
    IF ~bind.converter /\ acc.result # None /\ IsList(acc.result)
    THEN acc.owner ELSE "none"

\* {name: self._resolve_bind(bind) for name, bind in binds.items()} from the
\* k-th name on: the values, where each value object lives, and the
\* argument provider as the calls leave it.
RECURSIVE ResolvedBindsFrom(_, _, _, _, _)
ResolvedBindsFrom(self, order, k, out, alias) ==
    IF k > Len(order)
    THEN [out |-> out, alias |-> alias, self |-> self]
    ELSE LET bind == DisplayBind(order[k])
             r == ResolveBindOf(self, bind)
         IN  ResolvedBindsFrom([args |-> r.args, defaults |-> r.defaults], order, k + 1,
                               Put(out, order[k], r.value),
                               Put(alias, order[k], ResolveAlias(self, bind)))

\* AppConfig._resolved_binds: the dict as __str__ prints it (a value that is
\* the Namespace's or the defaults' own list shows what a later call
\* appended to it), and the argument provider afterwards.
ResolvedBinds(order) ==
    LET r == ResolvedBindsFrom(ArgsSelf, order, 1, EmptyMap, EmptyMap) IN
    [binds |-> [n \in DOMAIN r.out |->
                    CASE r.alias[n] = "args" -> r.self.args[DisplayBind(n).arg_key]
                      [] r.alias[n] = "defaults" -> r.self.defaults[DisplayBind(n).arg_key]
                      [] OTHER -> r.out[n]],
     args |-> r.self.args, defaults |-> r.self.defaults]

\* str(instance)
Str(order) ==
    /\ order \in DisplayOrders
    /\ LET r == ResolvedBinds(order) IN
        /\ \A n \in DOMAIN r.binds : ListLen(r.binds[n]) <= MaxLen
        /\ last' = [Call("str", NoStr, <<>>, None) EXCEPT
                        !.value = [t |-> "display", d |-> r.binds]]
        /\ args' = r.args
        /\ defaults' = r.defaults
    /\ UNCHANGED <<mro, providers, config, bind_defaults, inst, files, nops, other>>

NextDisplay ==
    \/ \E name \in AttrNames : Get(name)
    \/ \E name \in AttrNames, value \in WriteVals : SetAttr(name, value)
    \/ \E order \in [1..2 -> AttrNames] \cup [1..1 -> AttrNames] : Str(order)

SpecDisplay == Init /\ [][NextDisplay]_vars

\* C23: the display lists every bound property of the object, and each
\* one that is no APPEND binding with the value that reading the property
\* returns, also after a bound write to it.
C23_DisplayMatchesReads ==
    last.op = "str"
    => /\ BoundNames \subseteq DOMAIN last.value.d
       /\ \A n \in BoundNames :
            BindOf(n).action # "append"
                => last.value.d[n] = BindGet(BindOf(n)).value

====
